---- MODULE Spec2Model ----
(***************************************************************************)
(* Model of src/integrated-monitoring-system.py: the periodic monitoring   *)
(* loop of IntegratedMonitoringSystem, its SQLite store (touchpoint_metrics *)
(* and system_alerts), the Redis dashboard cache, the SocketIO push and    *)
(* the alert-resolution API.                                               *)
(*                                                                         *)
(* Floats are modelled exactly: a score is an integer, a weight is the     *)
(* code's weight times 100, and a quotient is kept as the pair             *)
(* [num, den] and compared by cross-multiplication.                        *)
(***************************************************************************)
EXTENDS Integers, Sequences, FiniteSets, TLC

\* ------------------------------------------------------------------ bounds
MaxMonitors == 2      \* how many of the registered monitors take part
MaxTicks == 2         \* ticks started over all loops
MaxLoops == 2         \* monitoring threads spawned by start_monitoring
MaxEvents == 3        \* environment events: start/stop calls, API requests
                      \* and injected failures (source, store, cache, push)
SlowCollect == 40     \* seconds a slow source call takes (more than the
                      \* collection interval)
MaxRuleSources == 2   \* sources collected in a tick of RuleSpec
MaxRows == 101        \* snapshots written to the metrics log in QuerySpec

\* -------------------------------------------------- inputs of the sources
\* (geo_score, ai_citation_rate) pairs a monitor may report
Readings == {[geo |-> 50, cit |-> 10], [geo |-> 90, cit |-> 90]}

\* ------------------------------------------------------- program constants
ErrorBackoff == 5
DefaultGeoThreshold == 60
DefaultCitationThreshold == 15
DefaultWeight == 25

VARIABLES
    config,           \* self.config
    is_running,       \* self.is_running
    now,              \* int(time.time())
    loops,            \* the monitoring threads: position and locals
    touchpoint_metrics, \* table touchpoint_metrics (rows in insertion order)
    system_alerts,    \* table system_alerts (rows in insertion order)
    alert_queue,      \* self.alert_queue
    current_metrics,  \* self.current_metrics
    cache,            \* redis key geo_monitoring:dashboard
    cache_expires,    \* the time at which redis drops that key
    emitted,          \* dashboard_update events sent through socketio
    api_log,          \* requests served by api_resolve_alert, with responses
    dashboard_log,    \* responses of api_dashboard, in the order served
    api_reply,        \* the last response of api_touchpoint_metrics or api_alerts
    ticks,            \* ticks started so far
    events            \* environment events so far

vars == <<config, is_running, now, loops, touchpoint_metrics, system_alerts,
          alert_queue, current_metrics, cache, cache_expires, emitted,
          api_log, dashboard_log, api_reply, ticks, events>>

\* ------------------------------------------------------------------ helpers
Range(s) == {s[i] : i \in 1..Len(s)}

Max(a, b) == IF a >= b THEN a ELSE b

\* TouchpointType, in the order the monitors dict is built
TouchpointType == <<"ai_search", "social_content", "ecommerce_ai", "private_domain">>

monitors == SubSeq(TouchpointType, 1, MaxMonitors)

Sources == Range(monitors)

default_config ==
    [collection_interval |-> 30,
     ai_search      |-> [geo_score_threshold |-> 70, citation_rate_threshold |-> 15],
     social_content |-> [geo_score_threshold |-> 65, citation_rate_threshold |-> 12],
     ecommerce_ai   |-> [geo_score_threshold |-> 75, citation_rate_threshold |-> 20],
     private_domain |-> [geo_score_threshold |-> 80, citation_rate_threshold |-> 80]]

\* _load_config when the configuration file is not found
_load_config == default_config

\* self.config.get('geo_score_threshold', 60) of the monitor of touchpoint tp
geo_score_threshold(cfg, tp) ==
    IF "geo_score_threshold" \in DOMAIN cfg[tp]
    THEN cfg[tp].geo_score_threshold ELSE DefaultGeoThreshold

citation_rate_threshold(cfg, tp) ==
    IF "citation_rate_threshold" \in DOMAIN cfg[tp]
    THEN cfg[tp].citation_rate_threshold ELSE DefaultCitationThreshold

\* f"{touchpoint_type}_{rule}_{int(time.time())}"
alert_id_of(tp, rule, t) == <<tp, rule, t>>

SystemAlert(tp, rule, level, t, value) ==
    [alert_id |-> alert_id_of(tp, rule, t),
     touchpoint_type |-> tp,
     level |-> level,
     title |-> rule,
     timestamp |-> t,
     metrics |-> value,
     action_required |-> TRUE]

\* the rules with <= in place of <
analyze_performance_non_strict(cfg, tp, geo, cit, t) ==
    (IF geo <= geo_score_threshold(cfg, tp)
     THEN <<SystemAlert(tp, "geo_low", "warning", t, geo)>> ELSE <<>>)
    \o
    (IF cit <= citation_rate_threshold(cfg, tp)
     THEN <<SystemAlert(tp, "citation_low", "critical", t, cit)>> ELSE <<>>)

\* TouchpointMonitor.analyze_performance
analyze_performance(cfg, tp, geo, cit, t) ==
    (IF geo < geo_score_threshold(cfg, tp)
     THEN <<SystemAlert(tp, "geo_low", "warning", t, geo)>> ELSE <<>>)
    \o
    (IF cit < citation_rate_threshold(cfg, tp)
     THEN <<SystemAlert(tp, "citation_low", "critical", t, cit)>> ELSE <<>>)

\* <Monitor>.collect_metrics when it returns
collect_metrics(cfg, tp, geo, cit, t) ==
    [touchpoint_type |-> tp,
     timestamp |-> t,
     geo_score |-> geo,
     ai_citation_rate |-> cit,
     status |-> "active",
     alerts |-> analyze_performance(cfg, tp, geo, cit, t)]

\* IntegratedMonitoringSystem.save_metrics
save_metrics(table, m) == Append(table, m)

AlertIds(table) == {table[i].alert_id : i \in 1..Len(table)}

\* save_alert on a table whose alert_id column is not UNIQUE
save_alert_without_unique(table, alert) ==
    Append(table, [alert_id |-> alert.alert_id,
                   touchpoint_type |-> alert.touchpoint_type,
                   level |-> alert.level,
                   title |-> alert.title,
                   timestamp |-> alert.timestamp,
                   metrics |-> alert.metrics,
                   action_required |-> alert.action_required,
                   resolved |-> FALSE])

\* save_alert as INSERT OR REPLACE: a row with the same alert_id is deleted
\* and the new row, unresolved, is added
save_alert_or_replace(table, alert) ==
    Append(SelectSeq(table, LAMBDA row : row.alert_id # alert.alert_id),
           [alert_id |-> alert.alert_id,
            touchpoint_type |-> alert.touchpoint_type,
            level |-> alert.level,
            title |-> alert.title,
            timestamp |-> alert.timestamp,
            metrics |-> alert.metrics,
            action_required |-> alert.action_required,
            resolved |-> FALSE])

\* IntegratedMonitoringSystem.save_alert: INSERT, the UNIQUE violation on
\* alert_id (sqlite3.IntegrityError) is swallowed
save_alert(table, alert) ==
    IF alert.alert_id \in AlertIds(table)
    THEN table
    ELSE Append(table, [alert_id |-> alert.alert_id,
                        touchpoint_type |-> alert.touchpoint_type,
                        level |-> alert.level,
                        title |-> alert.title,
                        timestamp |-> alert.timestamp,
                        metrics |-> alert.metrics,
                        action_required |-> alert.action_required,
                        resolved |-> FALSE])

RECURSIVE save_alerts(_, _)
save_alerts(table, alerts) ==
    IF alerts = <<>> THEN table
    ELSE save_alerts(save_alert(table, Head(alerts)), Tail(alerts))

\* weights of calculate_overall_geo_score, times 100
weights(tp) ==
    CASE tp = "ai_search" -> 30
      [] tp = "social_content" -> 25
      [] tp = "ecommerce_ai" -> 30
      [] tp = "private_domain" -> 15
      [] OTHER -> DefaultWeight

RECURSIVE weighted_score(_)
weighted_score(metrics) ==
    IF metrics = <<>> THEN 0
    ELSE Head(metrics).geo_score * weights(Head(metrics).touchpoint_type)
         + weighted_score(Tail(metrics))

RECURSIVE total_weight(_)
total_weight(metrics) ==
    IF metrics = <<>> THEN 0
    ELSE weights(Head(metrics).touchpoint_type) + total_weight(Tail(metrics))

\* calculate_overall_geo_score normalising by the weight of every registered
\* monitor instead of the weight of the snapshots at hand
calculate_overall_over_all_monitors(metrics) ==
    IF metrics = <<>> THEN [num |-> 0, den |-> 1]
    ELSE [num |-> weighted_score(metrics),
          den |-> total_weight([i \in 1..Len(TouchpointType) |->
                                  [touchpoint_type |-> TouchpointType[i]]])]

\* calculate_overall_geo_score dividing by the number of snapshots instead of
\* the total weight
calculate_overall_by_count(metrics) ==
    IF metrics = <<>> THEN [num |-> 0, den |-> 1]
    ELSE [num |-> weighted_score(metrics), den |-> 100 * Len(metrics)]

\* IntegratedMonitoringSystem.calculate_overall_geo_score
calculate_overall_geo_score(metrics) ==
    IF metrics = <<>> THEN [num |-> 0, den |-> 1]
    ELSE IF total_weight(metrics) > 0
         THEN [num |-> weighted_score(metrics), den |-> total_weight(metrics)]
         ELSE [num |-> 0, den |-> 1]

RECURSIVE count_alerts(_)
count_alerts(metrics) ==
    IF metrics = <<>> THEN 0
    ELSE Len(Head(metrics).alerts) + count_alerts(Tail(metrics))

\* dashboard_data of monitoring_loop
dashboard_data(metrics, t) ==
    [timestamp |-> t,
     overall_geo_score |-> calculate_overall_geo_score(metrics),
     touchpoints |-> metrics,
     active_alerts |-> count_alerts(metrics)]

\* the UPDATE flipping the flag instead of setting it
resolve_rows_toggle(table, id) ==
    [i \in 1..Len(table) |->
        IF table[i].alert_id = id
        THEN [table[i] EXCEPT !.resolved = ~@]
        ELSE table[i]]

\* UPDATE system_alerts SET resolved = TRUE WHERE alert_id = ?
\* the UPDATE without its WHERE clause
resolve_rows_all(table, id) ==
    [i \in 1..Len(table) |-> [table[i] EXCEPT !.resolved = TRUE]]

resolve_rows(table, id) ==
    [i \in 1..Len(table) |->
        IF table[i].alert_id = id
        THEN [table[i] EXCEPT !.resolved = TRUE]
        ELSE table[i]]

\* an alert id no tick ever produces
UnknownAlertId == <<"unknown", "unknown", 0>>

NoPayload == [timestamp |-> -1,
              overall_geo_score |-> [num |-> 0, den |-> 1],
              touchpoints |-> <<>>,
              active_alerts |-> 0]

\* no list request served yet
NoReply == [op |-> "none", arg |-> "", rows |-> <<>>]

\* LIMIT of the history query and of the alert list
MetricsLimit == 100
AlertsLimit == 50

\* redis_client.setex(key, 300, ...): seconds the cached payload lives
CacheTtl == 300

\* a monitoring thread: pc is its position in monitoring_loop, idx the task
\* collect_all_metrics awaits, metrics and payload its locals `metrics` and
\* `dashboard_data`, wake the time its sleep ends, failed the touchpoints
\* whose coroutine raised in the tick in progress, write_failed those whose
\* store write raised in it, error the step of the tick that sent the loop
\* to its except clause ("" if none), starts the instants its ticks began,
\* stop_requested whether stop_monitoring was called since the thread started
IdleLoop == [pc |-> "none", idx |-> 0, metrics |-> <<>>, wake |-> 0,
             payload |-> NoPayload, failed |-> {}, write_failed |-> {},
             error |-> "", starts |-> <<>>, stop_requested |-> FALSE]

\* --------------------------------------------------------------------- Init
Init ==
    /\ config = _load_config
    /\ is_running = FALSE
    /\ now = 0
    /\ loops = [l \in 1..MaxLoops |-> IdleLoop]
    /\ touchpoint_metrics = <<>>
    /\ system_alerts = <<>>
    /\ alert_queue = <<>>
    /\ current_metrics = <<>>
    /\ cache = NoPayload
    /\ cache_expires = 0
    /\ emitted = <<>>
    /\ api_log = <<>>
    /\ dashboard_log = <<>>
    /\ api_reply = NoReply
    /\ ticks = 0
    /\ events = 0


\* ------------------------------------------------------------------ actions
\* start_monitoring: set the flag and spawn one more monitoring thread
start_monitoring ==
    /\ \E l \in 1..MaxLoops :
          /\ loops[l].pc = "none"
          /\ \A k \in 1..(l - 1) : loops[k].pc # "none"
          /\ loops' = [loops EXCEPT ![l].pc = "while"]
    /\ events < MaxEvents
    /\ events' = events + 1
    /\ is_running' = TRUE
    /\ UNCHANGED <<config, now, touchpoint_metrics, system_alerts, alert_queue,
                   current_metrics, cache, cache_expires, emitted, api_log,
                   dashboard_log, api_reply, ticks>>

\* stop_monitoring
stop_monitoring ==
    /\ events < MaxEvents
    /\ events' = events + 1
    /\ is_running' = FALSE
    /\ loops' = [l \in 1..MaxLoops |->
                   IF loops[l].pc \in {"none", "exited"} THEN loops[l]
                   ELSE [loops[l] EXCEPT !.stop_requested = TRUE]]
    /\ UNCHANGED <<config, now, touchpoint_metrics, system_alerts, alert_queue,
                   current_metrics, cache, cache_expires, emitted, api_log,
                   dashboard_log, api_reply, ticks>>

\* monitoring_loop: `while self.is_running` is false
LoopExit(l) ==
    /\ loops[l].pc = "while"
    /\ ~is_running
    /\ loops' = [loops EXCEPT ![l].pc = "exited"]
    /\ UNCHANGED <<config, is_running, now, touchpoint_metrics, system_alerts,
                   alert_queue, current_metrics, cache, cache_expires, emitted,
                   api_log, dashboard_log, api_reply, ticks, events>>

\* a loop that begins its next tick without testing is_running
BeginTick_without_test(l) ==
    /\ loops[l].pc = "while"
    /\ ticks < MaxTicks
    /\ ticks' = ticks + 1
    /\ loops' = [loops EXCEPT ![l].pc = "await", ![l].idx = 1,
                              ![l].metrics = <<>>, ![l].failed = {},
                              ![l].write_failed = {}, ![l].error = "",
                              ![l].starts = Append(@, now)]
    /\ UNCHANGED <<config, is_running, now, touchpoint_metrics,
                   system_alerts, alert_queue, current_metrics, cache,
                   cache_expires, emitted, api_log, dashboard_log, api_reply,
                   events>>

\* monitoring_loop: `while self.is_running` is true; collect_all_metrics
\* builds the list of coroutines (none of them runs yet)
BeginTick(l) ==
    /\ loops[l].pc = "while"
    /\ is_running
    /\ ticks < MaxTicks
    /\ ticks' = ticks + 1
    /\ loops' = [loops EXCEPT ![l].pc = "await", ![l].idx = 1,
                              ![l].metrics = <<>>, ![l].failed = {},
                              ![l].write_failed = {}, ![l].error = "",
                              ![l].starts = Append(@, now)]
    /\ UNCHANGED <<config, is_running, now, touchpoint_metrics, system_alerts,
                   alert_queue, current_metrics, cache, cache_expires, emitted,
                   api_log, dashboard_log, api_reply, events>>

\* position after the task at loops[l].idx has been dealt with
AfterTask(l, metrics) ==
    [loops EXCEPT ![l].metrics = metrics,
                  ![l].idx = @ + 1,
                  ![l].pc = IF loops[l].idx = Len(monitors)
                            THEN "aggregate" ELSE "await"]

AlertIdSeq(alerts) == [i \in 1..Len(alerts) |-> alerts[i].alert_id]

\* collect_all_metrics, one iteration of `for touchpoint_type, task in tasks`:
\* the coroutine runs to completion, the snapshot and its alerts are saved
AwaitTaskOk(l) ==
    /\ loops[l].pc = "await"
    /\ \E r \in Readings :
         LET tp == monitors[loops[l].idx]
             metric == collect_metrics(config, tp, r.geo, r.cit, now)
         IN /\ loops' = AfterTask(l, Append(loops[l].metrics, metric))
            /\ touchpoint_metrics' = save_metrics(touchpoint_metrics, metric)
            /\ system_alerts' = save_alerts(system_alerts, metric.alerts)
            /\ alert_queue' = alert_queue \o AlertIdSeq(metric.alerts)
    /\ UNCHANGED <<config, is_running, now, current_metrics, cache,
                   cache_expires, emitted, api_log, dashboard_log, api_reply,
                   ticks, events>>

\* the same iteration when the awaited coroutine takes SlowCollect seconds
\* between reading the clock for its snapshot and evaluating the alert rules
AwaitTaskSlow(l) ==
    /\ loops[l].pc = "await"
    /\ events < MaxEvents
    /\ events' = events + 1
    /\ now' = now + SlowCollect
    /\ \E r \in Readings :
         LET tp == monitors[loops[l].idx]
             metric == [collect_metrics(config, tp, r.geo, r.cit, now)
                          EXCEPT !.alerts = analyze_performance(
                                      config, tp, r.geo, r.cit, now')]
         IN /\ loops' = AfterTask(l, Append(loops[l].metrics, metric))
            /\ touchpoint_metrics' = save_metrics(touchpoint_metrics, metric)
            /\ system_alerts' = save_alerts(system_alerts, metric.alerts)
            /\ alert_queue' = alert_queue \o AlertIdSeq(metric.alerts)
    /\ UNCHANGED <<config, is_running, current_metrics, cache, cache_expires,
                   emitted, api_log, dashboard_log, api_reply, ticks>>

\* the same iteration when collect_metrics raises: the except clause logs it
AwaitTaskRaises(l) ==
    /\ loops[l].pc = "await"
    /\ events < MaxEvents
    /\ events' = events + 1
    /\ loops' = [AfterTask(l, loops[l].metrics) EXCEPT
                    ![l].failed = @ \cup {monitors[loops[l].idx]}]
    /\ UNCHANGED <<config, is_running, now, touchpoint_metrics, system_alerts,
                   alert_queue, current_metrics, cache, cache_expires, emitted,
                   api_log, dashboard_log, api_reply, ticks>>

\* the same iteration when collect_metrics never returns: `await task` has
\* no timeout
AwaitTaskHangs(l) ==
    /\ loops[l].pc = "await"
    /\ events < MaxEvents
    /\ events' = events + 1
    /\ loops' = [loops EXCEPT ![l].pc = "hung"]
    /\ UNCHANGED <<config, is_running, now, touchpoint_metrics, system_alerts,
                   alert_queue, current_metrics, cache, cache_expires, emitted,
                   api_log, dashboard_log, api_reply, ticks>>

\* the iteration with `metrics[touchpoint_type] = metric` placed after the
\* store writes: a write error leaves the snapshot out of metrics
AwaitTaskStoreError_drops_snapshot(l) ==
    /\ loops[l].pc = "await"
    /\ events < MaxEvents
    /\ events' = events + 1
    /\ \E r \in Readings :
         LET tp == monitors[loops[l].idx]
             metric == collect_metrics(config, tp, r.geo, r.cit, now)
         IN \E done \in 0..Len(metric.alerts) :
              LET saved == SubSeq(metric.alerts, 1, done - 1)
              IN /\ loops' = [AfterTask(l, loops[l].metrics)
                                EXCEPT ![l].write_failed = @ \cup {tp}]
                 /\ touchpoint_metrics' =
                       IF done >= 1 THEN save_metrics(touchpoint_metrics, metric)
                       ELSE touchpoint_metrics
                 /\ system_alerts' = save_alerts(system_alerts, saved)
                 /\ alert_queue' = alert_queue \o AlertIdSeq(saved)
    /\ UNCHANGED <<config, is_running, now, current_metrics, cache,
                   cache_expires, emitted, api_log, dashboard_log, api_reply,
                   ticks>>

\* the same iteration when a store write raises after `done` writes went
\* through (write 1 is save_metrics, write 1+i is save_alert of alert i):
\* the snapshot is already in metrics, the rest of the iteration is skipped.
\* done = 0 is also what json.dumps(metrics.alerts) in save_metrics does when
\* the alerts hold Enum and datetime values (TypeError before the INSERT)
AwaitTaskStoreError(l) ==
    /\ loops[l].pc = "await"
    /\ events < MaxEvents
    /\ events' = events + 1
    /\ \E r \in Readings :
         LET tp == monitors[loops[l].idx]
             metric == collect_metrics(config, tp, r.geo, r.cit, now)
         IN \E done \in 0..Len(metric.alerts) :
              LET saved == SubSeq(metric.alerts, 1, done - 1)
              IN /\ loops' = [AfterTask(l, Append(loops[l].metrics, metric))
                                EXCEPT ![l].write_failed = @ \cup {tp}]
                 /\ touchpoint_metrics' =
                       IF done >= 1 THEN save_metrics(touchpoint_metrics, metric)
                       ELSE touchpoint_metrics
                 /\ system_alerts' = save_alerts(system_alerts, saved)
                 /\ alert_queue' = alert_queue \o AlertIdSeq(saved)
    /\ UNCHANGED <<config, is_running, now, current_metrics, cache,
                   cache_expires, emitted, api_log, dashboard_log, api_reply,
                   ticks>>

\* monitoring_loop: current_metrics, overall score and dashboard_data
Aggregate(l) ==
    /\ loops[l].pc = "aggregate"
    /\ current_metrics' = loops[l].metrics
    /\ loops' = [loops EXCEPT ![l].payload = dashboard_data(loops[l].metrics, now),
                              ![l].pc = "publish"]
    /\ UNCHANGED <<config, is_running, now, touchpoint_metrics, system_alerts,
                   alert_queue, cache, cache_expires, emitted, api_log,
                   dashboard_log, api_reply, ticks, events>>

\* a loop that emits without writing the cache first
Publish_without_setex(l) ==
    /\ loops[l].pc = "publish"
    /\ emitted' = Append(emitted, loops[l].payload)
    /\ loops' = [loops EXCEPT ![l].pc = "sleep",
                              ![l].wake = now + config.collection_interval]
    /\ UNCHANGED <<config, is_running, now, touchpoint_metrics, system_alerts,
                   alert_queue, current_metrics, cache, cache_expires, api_log,
                   dashboard_log, api_reply, ticks, events>>

\* monitoring_loop: setex, emit, then sleep for the collection interval
Publish(l) ==
    /\ loops[l].pc = "publish"
    /\ cache' = loops[l].payload
    /\ cache_expires' = now + CacheTtl
    /\ emitted' = Append(emitted, loops[l].payload)
    /\ loops' = [loops EXCEPT ![l].pc = "sleep",
                              ![l].wake = now + config.collection_interval]
    /\ UNCHANGED <<config, is_running, now, touchpoint_metrics, system_alerts,
                   alert_queue, current_metrics, api_log, dashboard_log,
                   api_reply, ticks, events>>

\* a loop whose try has no except clause: the error raised by setex ends the
\* thread
PublishCacheError_unhandled(l) ==
    /\ loops[l].pc = "publish"
    /\ events < MaxEvents
    /\ events' = events + 1
    /\ loops' = [loops EXCEPT ![l].pc = "exited", ![l].error = "cache"]
    /\ UNCHANGED <<config, is_running, now, touchpoint_metrics, system_alerts,
                   alert_queue, current_metrics, cache, cache_expires, emitted,
                   api_log, dashboard_log, api_reply, ticks>>

\* monitoring_loop: redis setex, or json.dumps(dashboard_data) in its
\* argument list, raises; the except clause sleeps 5 seconds
PublishCacheError(l) ==
    /\ loops[l].pc = "publish"
    /\ events < MaxEvents
    /\ events' = events + 1
    /\ loops' = [loops EXCEPT ![l].pc = "sleep", ![l].error = "cache",
                              ![l].wake = now + ErrorBackoff]
    /\ UNCHANGED <<config, is_running, now, touchpoint_metrics, system_alerts,
                   alert_queue, current_metrics, cache, cache_expires, emitted,
                   api_log, dashboard_log, api_reply, ticks>>

\* monitoring_loop: socketio.emit raises after the cache was written
PublishEmitError(l) ==
    /\ loops[l].pc = "publish"
    /\ events < MaxEvents
    /\ events' = events + 1
    /\ cache' = loops[l].payload
    /\ cache_expires' = now + CacheTtl
    /\ loops' = [loops EXCEPT ![l].pc = "sleep", ![l].error = "emit",
                              ![l].wake = now + ErrorBackoff]
    /\ UNCHANGED <<config, is_running, now, touchpoint_metrics, system_alerts,
                   alert_queue, current_metrics, emitted, api_log,
                   dashboard_log, api_reply, ticks>>

\* asyncio.sleep returns: the clock has reached the wake-up time
Wake(l) ==
    /\ loops[l].pc = "sleep"
    /\ now' = Max(now, loops[l].wake)
    /\ loops' = [loops EXCEPT ![l].pc = "while"]
    /\ UNCHANGED <<config, is_running, touchpoint_metrics, system_alerts,
                   alert_queue, current_metrics, cache, cache_expires, emitted,
                   api_log, dashboard_log, api_reply, ticks, events>>

\* POST /api/alerts/<alert_id>/resolve
api_resolve_alert(alert_id) ==
    /\ events < MaxEvents
    /\ events' = events + 1
    /\ system_alerts' = resolve_rows(system_alerts, alert_id)
    /\ api_log' = Append(api_log, [alert_id |-> alert_id,
                                   status |-> 200,
                                   body |-> "success"])
    /\ UNCHANGED <<config, is_running, now, loops, touchpoint_metrics,
                   alert_queue, current_metrics, cache, cache_expires, emitted,
                   ticks, dashboard_log, api_reply>>

\* GET /api/dashboard: the cached payload, or the no-data answer when the
\* key is absent or has expired
api_dashboard ==
    /\ events < MaxEvents
    /\ events' = events + 1
    /\ dashboard_log' =
          Append(dashboard_log,
                 IF cache # NoPayload /\ now < cache_expires
                 THEN [status |-> "data", data |-> cache]
                 ELSE [status |-> "no_data", data |-> NoPayload])
    /\ UNCHANGED <<config, is_running, now, loops, touchpoint_metrics,
                   system_alerts, alert_queue, current_metrics, cache,
                   cache_expires, emitted, api_log, ticks, api_reply>>

\* with every monitoring thread ended or blocked for good, the clock reaches
\* the expiry of the cached payload
TimePasses ==
    /\ \A l \in 1..MaxLoops : loops[l].pc \in {"none", "exited", "hung"}
    /\ now < cache_expires
    /\ now' = cache_expires
    /\ UNCHANGED <<config, is_running, loops, touchpoint_metrics,
                   system_alerts, alert_queue, current_metrics, cache,
                   cache_expires, emitted, api_log, dashboard_log, api_reply,
                   ticks, events>>

\* ORDER BY timestamp DESC: the rows by falling timestamp, rows of equal
\* timestamp in insertion order
RECURSIVE order_by_timestamp_desc(_)
order_by_timestamp_desc(rows) ==
    IF rows = <<>> THEN <<>>
    ELSE LET rest == order_by_timestamp_desc(Tail(rows))
             k == Cardinality({i \in 1..Len(rest) :
                                  rest[i].timestamp > Head(rows).timestamp})
         IN SubSeq(rest, 1, k) \o <<Head(rows)>>
               \o SubSeq(rest, k + 1, Len(rest))

\* LIMIT n
limit(rows, n) == SubSeq(rows, 1, IF Len(rows) < n THEN Len(rows) ELSE n)

\* SELECT * FROM touchpoint_metrics WHERE touchpoint_type = ?
\* ORDER BY timestamp DESC LIMIT 100
select_metrics(table, tp) ==
    limit(order_by_timestamp_desc(
              SelectSeq(table, LAMBDA row : row.touchpoint_type = tp)),
          MetricsLimit)

\* SELECT * FROM system_alerts WHERE resolved = FALSE
\* ORDER BY timestamp DESC LIMIT 50
select_alerts(table) ==
    limit(order_by_timestamp_desc(
              SelectSeq(table, LAMBDA row : ~row.resolved)),
          AlertsLimit)

\* GET /api/metrics/<touchpoint_type>
api_touchpoint_metrics(touchpoint_type) ==
    /\ api_reply' = [op |-> "metrics", arg |-> touchpoint_type,
                     rows |-> select_metrics(touchpoint_metrics,
                                             touchpoint_type)]
    /\ UNCHANGED <<config, is_running, now, loops, touchpoint_metrics,
                   system_alerts, alert_queue, current_metrics, cache,
                   cache_expires, emitted, api_log, dashboard_log, ticks,
                   events>>

\* GET /api/alerts
api_alerts ==
    /\ api_reply' = [op |-> "alerts", arg |-> "",
                     rows |-> select_alerts(system_alerts)]
    /\ UNCHANGED <<config, is_running, now, loops, touchpoint_metrics,
                   system_alerts, alert_queue, current_metrics, cache,
                   cache_expires, emitted, api_log, dashboard_log, ticks,
                   events>>

\* the alert ids API callers ask to resolve: the unknown id and the stored
\* alerts of the first monitor's first rule
ResolveTargets ==
    {UnknownAlertId} \cup
    {id \in AlertIds(system_alerts) : id[1] = monitors[1] /\ id[2] = "geo_low"}

LoopStep(l) ==
    \/ LoopExit(l)
    \/ BeginTick(l)
    \/ AwaitTaskOk(l)
    \/ AwaitTaskSlow(l)
    \/ AwaitTaskRaises(l)
    \/ AwaitTaskHangs(l)
    \/ AwaitTaskStoreError(l)
    \/ Aggregate(l)
    \/ Publish(l)
    \/ PublishCacheError(l)
    \/ PublishEmitError(l)
    \/ Wake(l)

Next ==
    \/ start_monitoring
    \/ stop_monitoring
    \/ \E l \in 1..MaxLoops : LoopStep(l)
    \/ \E id \in ResolveTargets : api_resolve_alert(id)
    \/ api_dashboard
    \/ TimePasses

Spec == Init /\ [][Next]_vars

\* the same program when every monitoring thread is scheduled again and again
\* and each asyncio.sleep returns
FairSpec == Spec /\ \A l \in 1..MaxLoops : WF_vars(LoopStep(l))

\* ------------------------------------- the alert rules on their own (RuleSpec)
\* geo scores and citation rates around every built-in threshold
RuleGeoScores == {50, 64, 65, 69, 70, 74, 75, 79, 80, 90}
RuleCitationRates == {10, 12, 14, 15, 19, 20, 79, 80, 90}

IndexOf(tp) == CHOOSE i \in 1..Len(TouchpointType) : TouchpointType[i] = tp

\* one iteration of collect_all_metrics for any of the four monitors, taken
\* in the order of the monitors dict, with a reading around the thresholds
CollectOne(l) ==
    /\ loops[l].pc = "await"
    /\ \E tp \in Range(TouchpointType), geo \in RuleGeoScores,
          cit \in RuleCitationRates :
         LET metric == collect_metrics(config, tp, geo, cit, now)
             metrics == Append(loops[l].metrics, metric)
         IN /\ \A i \in 1..Len(loops[l].metrics) :
                  IndexOf(loops[l].metrics[i].touchpoint_type) < IndexOf(tp)
            /\ loops' = [loops EXCEPT
                            ![l].metrics = metrics,
                            ![l].idx = @ + 1,
                            ![l].pc = IF Len(metrics) = MaxRuleSources
                                      THEN "aggregate" ELSE "await"]
            /\ touchpoint_metrics' = save_metrics(touchpoint_metrics, metric)
            /\ system_alerts' = save_alerts(system_alerts, metric.alerts)
            /\ alert_queue' = alert_queue \o AlertIdSeq(metric.alerts)
    /\ UNCHANGED <<config, is_running, now, current_metrics, cache,
                   cache_expires, emitted, api_log, dashboard_log, api_reply,
                   ticks, events>>

\* a monitoring thread that has just entered collect_all_metrics
RuleInit ==
    /\ config = _load_config
    /\ is_running = TRUE
    /\ now = 0
    /\ loops = [l \in 1..MaxLoops |->
                  IF l = 1
                  THEN [IdleLoop EXCEPT !.pc = "await", !.idx = 1,
                                        !.starts = <<0>>]
                  ELSE IdleLoop]
    /\ touchpoint_metrics = <<>>
    /\ system_alerts = <<>>
    /\ alert_queue = <<>>
    /\ current_metrics = <<>>
    /\ cache = NoPayload
    /\ cache_expires = 0
    /\ emitted = <<>>
    /\ api_log = <<>>
    /\ dashboard_log = <<>>
    /\ api_reply = NoReply
    /\ ticks = 1
    /\ events = 1

RuleNext == CollectOne(1) \/ Aggregate(1)

RuleSpec == RuleInit /\ [][RuleNext]_vars

\* ------------------------------------ the store and its queries (QuerySpec)
\* a whole tick of the first monitor, which reports a score below its
\* threshold: the snapshot and its alert are saved, then the loop sleeps for
\* the collection interval
StoreTick ==
    /\ Len(touchpoint_metrics) < MaxRows
    /\ LET metric == collect_metrics(config, monitors[1], 50, 90, now)
       IN /\ touchpoint_metrics' = save_metrics(touchpoint_metrics, metric)
          /\ system_alerts' = save_alerts(system_alerts, metric.alerts)
          /\ alert_queue' = alert_queue \o AlertIdSeq(metric.alerts)
    /\ now' = now + config.collection_interval
    /\ UNCHANGED <<config, is_running, loops, current_metrics, cache,
                   cache_expires, emitted, api_log, dashboard_log, api_reply,
                   ticks, events>>

\* the alert API callers ask to resolve in QuerySpec: the oldest one stored
OldestAlert == {system_alerts[i].alert_id : i \in {1} \cap DOMAIN system_alerts}

\* an empty store; one resolve call is left to the API callers
QueryInit ==
    /\ config = _load_config
    /\ is_running = TRUE
    /\ now = 0
    /\ loops = [l \in 1..MaxLoops |-> IdleLoop]
    /\ touchpoint_metrics = <<>>
    /\ system_alerts = <<>>
    /\ alert_queue = <<>>
    /\ current_metrics = <<>>
    /\ cache = NoPayload
    /\ cache_expires = 0
    /\ emitted = <<>>
    /\ api_log = <<>>
    /\ dashboard_log = <<>>
    /\ api_reply = NoReply
    /\ ticks = 0
    /\ events = MaxEvents - 1

QueryNext ==
    \/ StoreTick
    \/ \E tp \in Sources : api_touchpoint_metrics(tp)
    \/ api_alerts
    \/ \E id \in OldestAlert : api_resolve_alert(id)

QuerySpec == QueryInit /\ [][QueryNext]_vars

\* ------------------------------------------- aggregation on its own (AggSpec)
\* geo scores and citation rates the four monitors may report
AggGeoScores == {0, 50, 90, 100}
AggCitationRates == {10, 90}

Absent == [geo |-> -1, cit |-> -1]

AggReadings == [geo : AggGeoScores, cit : AggCitationRates]

\* the metrics dict collect_all_metrics returns when touchpoint tp reported
\* f[tp], or raised if f[tp] = Absent
MetricsDict(f) ==
    LET present == SelectSeq(TouchpointType, LAMBDA tp : f[tp] # Absent)
    IN [i \in 1..Len(present) |->
          collect_metrics(_load_config, present[i], f[present[i]].geo,
                          f[present[i]].cit, 0)]

\* a monitoring thread that has just left collect_all_metrics, with any
\* metrics dict over the four touchpoints
AggInit ==
    /\ config = _load_config
    /\ is_running = TRUE
    /\ now = 0
    /\ \E f \in [Range(TouchpointType) -> AggReadings \cup {Absent}] :
          loops = [l \in 1..MaxLoops |->
                     IF l = 1
                     THEN [IdleLoop EXCEPT !.pc = "aggregate",
                                           !.idx = Len(TouchpointType) + 1,
                                           !.metrics = MetricsDict(f)]
                     ELSE IdleLoop]
    /\ touchpoint_metrics = <<>>
    /\ system_alerts = <<>>
    /\ alert_queue = <<>>
    /\ current_metrics = <<>>
    /\ cache = NoPayload
    /\ cache_expires = 0
    /\ emitted = <<>>
    /\ api_log = <<>>
    /\ dashboard_log = <<>>
    /\ api_reply = NoReply
    /\ ticks = 1
    /\ events = 1

AggNext == Aggregate(1)

AggSpec == AggInit /\ [][AggNext]_vars

\* ------------------------------------------------------------------- claims
Bucket(t) == t \div config.collection_interval

SameRule(a, b) ==
    /\ a.touchpoint_type = b.touchpoint_type
    /\ a.title = b.title
    /\ Bucket(a.timestamp) = Bucket(b.timestamp)

SavedInStep ==
    Range(SubSeq(alert_queue', Len(alert_queue) + 1, Len(alert_queue')))

\* C2: a save_alert whose alert_id is already stored changes no row and adds
\* none (the step saving it completes), and the stored alert_id values are
\* pairwise distinct.
C2_DuplicateSaveIsNoOp ==
    [][ /\ \A i, j \in 1..Len(system_alerts') :
              i # j => system_alerts'[i].alert_id # system_alerts'[j].alert_id
        /\ alert_queue' # alert_queue =>
              /\ SubSeq(system_alerts', 1, Len(system_alerts)) = system_alerts
              /\ Len(system_alerts') = Len(system_alerts)
                    + Cardinality(SavedInStep \ AlertIds(system_alerts))
      ]_vars

\* an alert id was saved twice and the store holds one row for it
C2_Witness ==
    \E i, j \in 1..Len(alert_queue) :
        /\ i < j
        /\ alert_queue[i] = alert_queue[j]
        /\ Cardinality({k \in 1..Len(system_alerts) :
                          system_alerts[k].alert_id = alert_queue[i]}) = 1

C5_UnknownAlertNotFound ==
    \A k \in 1..Len(api_log) :
        api_log[k].alert_id \notin AlertIds(system_alerts)
            => api_log[k].body = "not_found"

RatEq(a, b) == a.num * b.den = b.num * a.den

\* C6: when every source failed in a tick, the payload built for it carries
\* the overall score of the previous tick and a degraded flag.
C6_AllFailedKeepsPreviousScore ==
    [][ \A l \in 1..MaxLoops :
          ( /\ loops[l].pc = "aggregate"
            /\ loops'[l].pc = "publish"
            /\ loops[l].metrics = <<>>
            /\ loops[l].payload # NoPayload )
          => /\ RatEq(loops'[l].payload.overall_geo_score,
                      loops[l].payload.overall_geo_score)
             /\ "degraded" \in DOMAIN loops'[l].payload
      ]_vars

\* C7: the snapshots handed to aggregation hold one record for every
\* registered source, a failed source being present with status degraded.
C7_OneRecordPerSource ==
    \A l \in 1..MaxLoops :
        loops[l].pc \in {"aggregate", "publish"} =>
            /\ Len(loops[l].metrics) = Len(monitors)
            /\ \A i \in 1..Len(monitors) :
                  /\ loops[l].metrics[i].touchpoint_type = monitors[i]
                  /\ monitors[i] \in loops[l].failed
                        => loops[l].metrics[i].status = "degraded"

SnapshotOf(metrics, tp) ==
    CHOOSE m \in Range(metrics) : m.touchpoint_type = tp

\* the sum of weight_i over the sources S
RECURSIVE SumWeights(_)
SumWeights(S) ==
    IF S = {} THEN 0
    ELSE LET tp == CHOOSE y \in S : TRUE
         IN weights(tp) + SumWeights(S \ {tp})

\* the sum of score_i * weight_i over the sources S
RECURSIVE SumScores(_, _)
SumScores(metrics, S) ==
    IF S = {} THEN 0
    ELSE LET tp == CHOOSE y \in S : TRUE
         IN SnapshotOf(metrics, tp).geo_score * weights(tp)
            + SumScores(metrics, S \ {tp})

\* C8: after a source failed, every other source has its snapshot in the
\* payload of that tick and the overall score is the weighted mean over
\* exactly the sources that did not fail.
C8_FailureIsolated ==
    \A l \in 1..MaxLoops :
        loops[l].pc = "publish" =>
            LET p == loops[l].payload
                ok == Sources \ loops[l].failed
            IN /\ {p.touchpoints[i].touchpoint_type :
                      i \in 1..Len(p.touchpoints)} = ok
               /\ Len(p.touchpoints) = Cardinality(ok)
               /\ ok # {} =>
                     p.overall_geo_score.num * SumWeights(ok)
                        = SumScores(p.touchpoints, ok)
                             * p.overall_geo_score.den

\* a tick with a failed source and a reporting one has been aggregated
C8_Witness ==
    \E l \in 1..MaxLoops :
        /\ loops[l].pc = "publish"
        /\ loops[l].failed # {}
        /\ loops[l].payload.touchpoints # <<>>

\* C9: with at least one reporting source the overall score lies between
\* the lowest and the highest score of the reporting sources.
C9_ScoreWithinRange ==
    \A l \in 1..MaxLoops :
        (loops[l].pc = "publish" /\ loops[l].payload.touchpoints # <<>>) =>
            LET p == loops[l].payload
                scores == {p.touchpoints[i].geo_score :
                              i \in 1..Len(p.touchpoints)}
                lo == CHOOSE x \in scores : \A y \in scores : x <= y
                hi == CHOOSE x \in scores : \A y \in scores : x >= y
            IN /\ p.overall_geo_score.den > 0
               /\ lo * p.overall_geo_score.den <= p.overall_geo_score.num
               /\ p.overall_geo_score.num <= hi * p.overall_geo_score.den

\* sources with different scores and different weights have been aggregated
C9_Witness ==
    \E l \in 1..MaxLoops :
        /\ loops[l].pc = "publish"
        /\ \E i, j \in 1..Len(loops[l].payload.touchpoints) :
              /\ loops[l].payload.touchpoints[i].geo_score
                    < loops[l].payload.touchpoints[j].geo_score
              /\ weights(loops[l].payload.touchpoints[i].touchpoint_type)
                    # weights(loops[l].payload.touchpoints[j].touchpoint_type)

\* C10: a tick in progress can always take its next step: no source call
\* blocks the monitoring thread for good.
C10_TickNeverStalls ==
    \A l \in 1..MaxLoops :
        loops[l].pc \in {"await", "hung", "aggregate", "publish"}
            => ENABLED LoopStep(l)

\* C11: while a source of the tick in progress has not yet returned, nothing
\* of that tick is persisted: no snapshot of the tick is in the metrics log
\* and no alert of the tick is in the alert store.
C11_NothingPersistedBeforeAllReturned ==
    \A l \in 1..MaxLoops :
        loops[l].pc \in {"await", "hung"} =>
            \A i \in 1..Len(loops[l].metrics) :
                /\ loops[l].metrics[i] \notin Range(touchpoint_metrics)
                /\ \A k \in 1..Len(loops[l].metrics[i].alerts) :
                      loops[l].metrics[i].alerts[k].alert_id
                          \notin AlertIds(system_alerts)

\* the tick in progress of thread l, or the one it sleeps after, met an error:
\* a source raised, a store write raised, or the cache or the broadcast raised
FailingTick(l) ==
    /\ loops[l].pc \in {"await", "aggregate", "publish", "sleep"}
    /\ \/ loops[l].failed # {}
       \/ loops[l].write_failed # {}
       \/ loops[l].error # ""

\* thread l has just begun a tick
TickStarted(l) ==
    /\ loops[l].pc = "await"
    /\ loops[l].idx = 1
    /\ loops[l].failed = {}
    /\ loops[l].write_failed = {}

\* C12: no error inside a tick ends the monitoring loop. A thread leaves the
\* loop only at the loop head with is_running false, and after a failing tick
\* the thread starts another tick, unless shutdown is requested, a source
\* call of the failing tick never returns, or the tick bound is used up.
C12_ErrorsDoNotEndLoop ==
    /\ [][\A l \in 1..MaxLoops :
             (loops'[l].pc = "exited" /\ loops[l].pc # "exited")
                 => (loops[l].pc = "while" /\ ~is_running)]_vars
    /\ \A l \in 1..MaxLoops :
          FailingTick(l) ~> \/ TickStarted(l)
                            \/ loops[l].pc = "hung"
                            \/ ~is_running
                            \/ ticks = MaxTicks

\* a thread began its second tick one error back-off after its first
C12_Witness ==
    \E l \in 1..MaxLoops :
        /\ TickStarted(l)
        /\ Len(loops[l].starts) = 2
        /\ loops[l].starts[2] = loops[l].starts[1] + ErrorBackoff

\* C13: a monitoring thread that has seen a stop_monitoring call begins no
\* tick afterwards: no step takes it from the loop head into
\* collect_all_metrics once shutdown was requested, whether the request came
\* during a tick or during the sleep between ticks.
C13_NoTickAfterStop ==
    [][\A l \in 1..MaxLoops :
          (loops[l].pc = "while" /\ loops'[l].pc = "await")
              => ~loops[l].stop_requested]_vars

\* the same with the flag in place of the request: no tick begins while
\* is_running is false
NoTickWhileNotRunning ==
    [][\A l \in 1..MaxLoops :
          (loops[l].pc = "while" /\ loops'[l].pc = "await") => is_running]_vars

\* the touchpoints that have a snapshot in a payload
PayloadSources(p) ==
    {p.touchpoints[i].touchpoint_type : i \in 1..Len(p.touchpoints)}

\* snapshot m and every alert of it are in the store
Persisted(m) ==
    /\ m \in Range(touchpoint_metrics)
    /\ \A k \in 1..Len(m.alerts) :
          m.alerts[k].alert_id \in AlertIds(system_alerts)

C15_ExactlyOnePushPerTick ==
    [][\A l \in 1..MaxLoops :
          (loops[l].pc = "publish" /\ loops'[l].pc = "sleep"
              /\ loops'[l].error # "emit")
              => emitted' = Append(emitted, loops[l].payload)]_vars

\* the alerts in the store that are not resolved
Unresolved(table) == {i \in 1..Len(table) : ~table[i].resolved}

LastReply == dashboard_log'[Len(dashboard_log')]

\* C17 as claimed: once a tick has published, an observer asking for the
\* latest aggregate at any later time receives the payload of the most
\* recently published tick, never the no-data answer.
C17_LateJoinerGetsLatestPublished ==
    [][(dashboard_log' # dashboard_log /\ emitted # <<>>)
          => /\ LastReply.status = "data"
             /\ LastReply.data = emitted[Len(emitted)]]_vars

\* C17 amended: the payload of a published tick is in the cache from its push
\* on and lives there for CacheTtl seconds; the cache holds a single payload,
\* replaced only by the payload of the thread that publishes; an observer
\* asking less than CacheTtl seconds after the last cache write receives
\* exactly that payload, and the no-data answer from then on.
C17_LateJoinerGetsCachedWhileFresh ==
    [][/\ Len(emitted') > Len(emitted)
            => /\ cache' = emitted'[Len(emitted')]
               /\ cache_expires' = now + CacheTtl
       /\ cache' # cache
            => \E l \in 1..MaxLoops :
                  /\ loops[l].pc = "publish"
                  /\ loops'[l].pc = "sleep"
                  /\ cache' = loops[l].payload
                  /\ cache_expires' = now + CacheTtl
       /\ dashboard_log' # dashboard_log
            => /\ dashboard_log' = Append(dashboard_log, LastReply)
               /\ LastReply =
                     IF cache_expires > 0 /\ now < cache_expires
                     THEN [status |-> "data", data |-> cache]
                     ELSE [status |-> "no_data", data |-> NoPayload]]_vars

\* an observer asked after a tick published and received that tick's payload
C17_Witness ==
    /\ emitted # <<>>
    /\ \E k \in 1..Len(dashboard_log) :
          /\ dashboard_log[k].status = "data"
          /\ dashboard_log[k].data = emitted[Len(emitted)]

\* C18: ticks keep the original cadence. Every tick of a thread begins at a
\* whole number of collection intervals after the thread's first tick, also
\* after a tick that ran longer than the interval (ticks that follow a tick
\* ended by a cache or broadcast error are left aside).
C18_TicksKeepCadence ==
    [][\A l \in 1..MaxLoops :
          (loops[l].pc = "while" /\ loops'[l].pc = "await"
              /\ loops[l].starts # <<>> /\ loops[l].error = "")
              => (now - loops[l].starts[1]) % config.collection_interval = 0]_vars

\* C19: a tick never changes an alert that is already stored. No step removes
\* a row; a step of a monitoring thread leaves every stored row as it was;
\* the only change a row ever sees is resolved going from false to true, in
\* the step that serves a resolve call for that alert id.
C19_TickNeverChangesAlert ==
    [][/\ Len(system_alerts') >= Len(system_alerts)
       /\ (\E l \in 1..MaxLoops : loops'[l].pc # loops[l].pc)
             => SubSeq(system_alerts', 1, Len(system_alerts)) = system_alerts
       /\ \A i \in 1..Len(system_alerts) :
             system_alerts'[i] # system_alerts[i] =>
                /\ Len(api_log') = Len(api_log) + 1
                /\ api_log'[Len(api_log')].alert_id = system_alerts[i].alert_id
                /\ ~system_alerts[i].resolved
                /\ system_alerts'[i] =
                      [system_alerts[i] EXCEPT !.resolved = TRUE]]_vars

\* an alert raised in one tick is still unresolved after a later tick found
\* the same source back above the threshold
C19_Witness ==
    \E i \in 1..Len(system_alerts) :
        /\ system_alerts[i].title = "geo_low"
        /\ ~system_alerts[i].resolved
        /\ \E k \in 1..Len(touchpoint_metrics) :
              /\ touchpoint_metrics[k].touchpoint_type
                    = system_alerts[i].touchpoint_type
              /\ touchpoint_metrics[k].timestamp > system_alerts[i].timestamp
              /\ touchpoint_metrics[k].geo_score
                    >= geo_score_threshold(config,
                                           system_alerts[i].touchpoint_type)
              /\ touchpoint_metrics[k].alerts = <<>>

\* C20: serving a resolve call changes nothing but the resolved flag of the
\* alert with that id: every other field of it, every other alert, the metrics
\* log, the alert queue, the cache and the pushed events stay as they were.
\* And no step of any operation deletes an alert row or rewrites its id,
\* source, level, title, timestamp or triggering metrics.
C20_ResolveChangesOnlyTheFlag ==
    [][/\ Len(api_log') = Len(api_log) + 1 =>
            LET id == api_log'[Len(api_log')].alert_id
            IN /\ Len(system_alerts') = Len(system_alerts)
               /\ \A i \in 1..Len(system_alerts) :
                     IF system_alerts[i].alert_id = id
                     THEN system_alerts'[i] =
                             [system_alerts[i] EXCEPT
                                 !.resolved = system_alerts'[i].resolved]
                     ELSE system_alerts'[i] = system_alerts[i]
               /\ UNCHANGED <<touchpoint_metrics, alert_queue, current_metrics,
                              cache, cache_expires, emitted, loops, config,
                              is_running>>
       /\ Len(system_alerts') >= Len(system_alerts)
       /\ \A i \in 1..Len(system_alerts) :
             /\ system_alerts'[i].alert_id = system_alerts[i].alert_id
             /\ system_alerts'[i].touchpoint_type
                   = system_alerts[i].touchpoint_type
             /\ system_alerts'[i].level = system_alerts[i].level
             /\ system_alerts'[i].title = system_alerts[i].title
             /\ system_alerts'[i].timestamp = system_alerts[i].timestamp
             /\ system_alerts'[i].metrics = system_alerts[i].metrics]_vars

\* a resolve call was served on a store that holds that alert, other alerts
\* and a metrics log
C20_Witness ==
    /\ api_log # <<>>
    /\ touchpoint_metrics # <<>>
    /\ \E i, j \in 1..Len(system_alerts) :
          /\ system_alerts[i].alert_id = api_log[Len(api_log)].alert_id
          /\ system_alerts[i].resolved
          /\ ~system_alerts[j].resolved

\* C21: the metrics log is append-only and every tick adds exactly one row
\* per registered source, also for a source that failed: no step changes or
\* removes a row already written, and the step in which a thread is done with
\* a source appends exactly one row, of that source (steps whose store write
\* itself raised are left aside).
C21_OneLogRowPerSourcePerTick ==
    [][/\ Len(touchpoint_metrics') >= Len(touchpoint_metrics)
       /\ SubSeq(touchpoint_metrics', 1, Len(touchpoint_metrics))
             = touchpoint_metrics
       /\ \A l \in 1..MaxLoops :
             (loops[l].pc = "await" /\ loops'[l].idx = loops[l].idx + 1
                 /\ loops'[l].write_failed = loops[l].write_failed)
                 => /\ Len(touchpoint_metrics') = Len(touchpoint_metrics) + 1
                    /\ touchpoint_metrics'[Len(touchpoint_metrics')]
                          .touchpoint_type = monitors[loops[l].idx]]_vars

AlertTitles(m) == {m.alerts[k].title : k \in 1..Len(m.alerts)}

\* C22: the alerts of a snapshot are exactly those of the violated rules: a
\* score alert iff the score is strictly below the source's score threshold,
\* a citation alert iff the citation rate is strictly below its citation
\* threshold, each at most once and nothing else; and two equally weighted
\* sources scoring 50 and 90 give the overall score 70.
C22_AlertsAreViolatedRules ==
    \A l \in 1..MaxLoops :
        /\ \A i \in 1..Len(loops[l].metrics) :
              LET m == loops[l].metrics[i]
                  tp == m.touchpoint_type
              IN /\ ("geo_low" \in AlertTitles(m))
                       <=> (m.geo_score < config[tp].geo_score_threshold)
                 /\ ("citation_low" \in AlertTitles(m))
                       <=> (m.ai_citation_rate
                               < config[tp].citation_rate_threshold)
                 /\ AlertTitles(m) \subseteq {"geo_low", "citation_low"}
                 /\ Len(m.alerts) = Cardinality(AlertTitles(m))
                 /\ \A k \in 1..Len(m.alerts) :
                       /\ m.alerts[k].touchpoint_type = tp
                       /\ m.alerts[k].alert_id \in AlertIds(system_alerts)
        /\ (/\ loops[l].pc = "publish"
            /\ Len(loops[l].metrics) = 2
            /\ weights(loops[l].metrics[1].touchpoint_type)
                  = weights(loops[l].metrics[2].touchpoint_type)
            /\ {loops[l].metrics[1].geo_score, loops[l].metrics[2].geo_score}
                  = {50, 90})
              => RatEq(loops[l].payload.overall_geo_score,
                       [num |-> 70, den |-> 1])

\* Scenario A with citation rates equal to their thresholds: ai_search at 50
\* and ecommerce_ai at 90 were aggregated, one alert in all
C22_Witness ==
    \E l \in 1..MaxLoops :
        /\ loops[l].pc = "publish"
        /\ Len(loops[l].metrics) = 2
        /\ loops[l].metrics[1].touchpoint_type = "ai_search"
        /\ loops[l].metrics[1].geo_score = 50
        /\ loops[l].metrics[1].ai_citation_rate
              = config.ai_search.citation_rate_threshold
        /\ loops[l].metrics[2].touchpoint_type = "ecommerce_ai"
        /\ loops[l].metrics[2].geo_score = 90
        /\ loops[l].metrics[2].ai_citation_rate
              = config.ecommerce_ai.citation_rate_threshold
        /\ loops[l].payload.active_alerts = 1
        /\ Len(system_alerts) = 1

\* C23: every snapshot written to the metrics log is read back by the history
\* query of its source with the scalar fields it was written with, however
\* many snapshots of that source were written after it.
C23_HistoryRoundTrip ==
    [][(api_reply' # api_reply /\ api_reply'.op = "metrics") =>
          \A i \in 1..Len(touchpoint_metrics) :
              touchpoint_metrics[i].touchpoint_type = api_reply'.arg =>
                 \E k \in 1..Len(api_reply'.rows) :
                     /\ api_reply'.rows[k].timestamp
                           = touchpoint_metrics[i].timestamp
                     /\ api_reply'.rows[k].geo_score
                           = touchpoint_metrics[i].geo_score
                     /\ api_reply'.rows[k].ai_citation_rate
                           = touchpoint_metrics[i].ai_citation_rate]_vars

C25_AlertsAfterAggregation ==
    \A l \in 1..MaxLoops :
        loops[l].pc \in {"await", "hung", "aggregate"} =>
            \A i \in 1..Len(loops[l].metrics) :
                /\ loops[l].metrics[i].alerts = <<>>
                /\ \A k \in 1..Len(system_alerts) :
                      system_alerts[k].touchpoint_type
                            = loops[l].metrics[i].touchpoint_type
                         => system_alerts[k].timestamp
                               < loops[l].starts[Len(loops[l].starts)]

\* C26: in a tick every source's collection is started before the thread
\* waits for any of them, so each snapshot of the tick carries the clock
\* reading of the instant the tick began, whatever time another source of
\* the tick took to answer.
C26_SourcesStartTogether ==
    \A l \in 1..MaxLoops :
        loops[l].pc \in {"await", "hung", "aggregate"} =>
            \A i \in 1..Len(loops[l].metrics) :
                loops[l].metrics[i].timestamp
                    = loops[l].starts[Len(loops[l].starts)]

\* the monitoring threads that are inside a tick
InTick == {l \in 1..MaxLoops :
              loops[l].pc \in {"await", "hung", "aggregate", "publish"}}

\* C27: whatever the sequence of start_monitoring and stop_monitoring calls,
\* at most one monitoring thread is alive in the loop, so no two threads are
\* ever inside a tick at the same time.
C27_AtMostOneLoop ==
    /\ Cardinality({l \in 1..MaxLoops :
                       loops[l].pc \notin {"none", "exited"}}) <= 1
    /\ Cardinality(InTick) <= 1

\* C28: after stop_monitoring, with no start_monitoring after it, every
\* monitoring thread ends, provided its source calls return: it begins no
\* tick while is_running is false, so it finishes at most the tick in
\* progress and the sleep after it, and then exits.
C28_LoopEndsAfterStop ==
    /\ NoTickWhileNotRunning
    /\ \A l \in 1..MaxLoops :
          (loops[l].pc \notin {"none", "exited"} /\ ~is_running)
              ~> \/ loops[l].pc = "exited"
                 \/ loops[l].pc = "hung"
                 \/ is_running

\* a thread that ran a tick has exited after a stop request
C28_Witness ==
    \E l \in 1..MaxLoops :
        /\ loops[l].pc = "exited"
        /\ loops[l].stop_requested
        /\ loops[l].starts # <<>>
        /\ ~is_running

\* the alert ids embedded in the snapshots of a payload
PayloadAlertIds(payload) ==
    UNION {Range(AlertIdSeq(payload.touchpoints[i].alerts)) :
              i \in 1..Len(payload.touchpoints)}

update(d, u) ==
    [k \in DOMAIN d \cup DOMAIN u |-> IF k \in DOMAIN u THEN u[k] ELSE d[k]]

\* _load_config when the configuration file holds the JSON object user_config
_load_config_file(user_config) == update(default_config, user_config)

\* configuration files: an empty object, one without any source, one giving
\* both thresholds of a source, and two giving one threshold of a source
UserConfigs ==
    {<<>>,
     [collection_interval |-> 60],
     [ai_search |-> [geo_score_threshold |-> 75, citation_rate_threshold |-> 20]],
     [ai_search |-> [citation_rate_threshold |-> 20]],
     [private_domain |-> [geo_score_threshold |-> 75]]}

\* __init__ with a configuration file, then a monitoring thread that has
\* just entered collect_all_metrics
ConfigInit ==
    /\ \E user_config \in UserConfigs : config = _load_config_file(user_config)
    /\ is_running = TRUE
    /\ now = 0
    /\ loops = [l \in 1..MaxLoops |->
                  IF l = 1
                  THEN [IdleLoop EXCEPT !.pc = "await", !.idx = 1,
                                        !.starts = <<0>>]
                  ELSE IdleLoop]
    /\ touchpoint_metrics = <<>>
    /\ system_alerts = <<>>
    /\ alert_queue = <<>>
    /\ current_metrics = <<>>
    /\ cache = NoPayload
    /\ cache_expires = 0
    /\ emitted = <<>>
    /\ api_log = <<>>
    /\ dashboard_log = <<>>
    /\ api_reply = NoReply
    /\ ticks = 1
    /\ events = 1

ConfigSpec == ConfigInit /\ [][RuleNext]_vars

\* the threshold the user file gives for a rule of a source, or else the
\* source's built-in default
ConfiguredThreshold(user_config, tp, key) ==
    IF tp \in DOMAIN user_config /\ key \in DOMAIN user_config[tp]
    THEN user_config[tp][key]
    ELSE default_config[tp][key]

\* C30: each rule of a source is evaluated against the threshold the user
\* configuration file gives for that source if present, and otherwise against
\* that source's built-in default; a file that sets only one of a source's
\* two thresholds leaves the other at the source's built-in default. Whatever
\* file the configuration was loaded from, every stored snapshot carries a
\* score alert iff its score is below that score threshold and a citation
\* alert iff its citation rate is below that citation threshold.
C30_ThresholdsFromUserFileOrSourceDefault ==
    \A user_config \in UserConfigs :
        config = _load_config_file(user_config)
            => \A i \in 1..Len(touchpoint_metrics) :
                  LET m == touchpoint_metrics[i]
                      tp == m.touchpoint_type
                  IN /\ ("geo_low" \in AlertTitles(m))
                          <=> (m.geo_score < ConfiguredThreshold(
                                   user_config, tp, "geo_score_threshold"))
                     /\ ("citation_low" \in AlertTitles(m))
                          <=> (m.ai_citation_rate < ConfiguredThreshold(
                                   user_config, tp, "citation_rate_threshold"))

====
